---------------------------- MODULE Spec2Model ----------------------------
(***************************************************************************)
(* A model of scripts/genicons.py: the configuration tables, the path and  *)
(* filename derivation, the text layout of show_chars, the enumeration     *)
(* driver main() with its file-system effects, and the exit-status mapping *)
(* of the __main__ block.                                                  *)
(*                                                                         *)
(* Strings are TLA+ strings; Python's slices, os.path.join, normpath and   *)
(* the decimal formatting of f-strings are computed character by character.*)
(***************************************************************************)
EXTENDS Integers, Sequences, FiniteSets, TLC

VARIABLES
    mode,           \* "main": invocations of main(); otherwise the function under study
    procs,          \* the invocations of main() that run (process ids)
    fontInstalled,  \* whether the font map lists the "CC Icons" family
    tree0,          \* name of the tree the invocations started on
    files,          \* the PNG tree: file path |-> content
    dirs,           \* the directories that exist (leaf directories of the tree)
    pc,             \* per invocation: position in the script
    idx,            \* per invocation: index of the combination being enumerated
    ctx,            \* per invocation: the rendered context awaiting serialisation
    exc,            \* per invocation: the exception propagating out of main()
    status,         \* per invocation: process exit status (-1 while running)
    run,            \* per invocation: how many times main() has been started
    calls,          \* per invocation and run: calls of genicon, makedirs, write_to_png
    mkres,          \* per invocation: outcome of the last os.makedirs call
    arg,            \* arguments of the pure function under study
    ret             \* its result / the locals of show_chars

vars == <<mode, procs, fontInstalled, tree0, files, dirs, pc, idx, ctx, exc,
          status, run, calls, mkres, arg, ret>>

mainVars == <<procs, fontInstalled, tree0, files, dirs, pc, idx, ctx, exc,
              status, run, calls, mkres>>

-----------------------------------------------------------------------------
(* Bounds of the model.                                                    *)

\* Foregrounds enumerated by main() (see ModelForegrounds).
MaxForegrounds == 3
\* Times main() is started by one process, one after the other.
MaxRuns == 2
\* Longest character sequence given to icon_filename and show_chars.
MaxChars == 3
\* Largest text extent (width, height) a glyph measures, in pixels.
MaxExtent == 3
\* Dimension presets enumerated by two concurrent invocations.
ConcDims == 2

Min(a, b) == IF a < b THEN a ELSE b

Range(s) == {s[k] : k \in 1..Len(s)}

-----------------------------------------------------------------------------
(* Python string primitives.                                               *)

\* s[a:b] for 0 <= a <= b, clamped to the string as Python clamps a slice.
Slice(s, a, b) == SubSeq(s, a + 1, Min(b, Len(s)))

CharAt(s, k) == SubSeq(s, k, k)

StartsWith(s, c) == Len(s) >= 1 /\ CharAt(s, 1) = c

EndsWith(s, c) == Len(s) >= 1 /\ CharAt(s, Len(s)) = c

\* c in s, for a one-character c (substring test on str, membership on list).
Contains(s, c) == \E k \in 1..Len(s) : CharAt(s, k) = c

DigitChars == <<"0", "1", "2", "3", "4", "5", "6", "7", "8", "9">>

RECURSIVE Str(_)
\* format(n, "") of a non-negative int, as an f-string renders it.
Str(n) == IF n < 10 THEN DigitChars[n + 1]
          ELSE Str(n \div 10) \o DigitChars[(n % 10) + 1]

RECURSIVE SplitFrom(_, _, _)
SplitFrom(s, k, cur) ==
    IF k > Len(s) THEN <<cur>>
    ELSE IF CharAt(s, k) = "/" THEN <<cur>> \o SplitFrom(s, k + 1, "")
    ELSE SplitFrom(s, k + 1, cur \o CharAt(s, k))

\* s.split("/")
Split(s) == SplitFrom(s, 1, "")

RECURSIVE JoinWith(_, _)
\* sep.join(parts)
JoinWith(sep, parts) ==
    IF Len(parts) = 0 THEN ""
    ELSE IF Len(parts) = 1 THEN parts[1]
    ELSE parts[1] \o sep \o JoinWith(sep, Tail(parts))

-----------------------------------------------------------------------------
(* posixpath                                                               *)

\* One round of the loop of posixpath.join.
JoinStep(path, b) ==
    IF StartsWith(b, "/") THEN b
    ELSE IF path = "" \/ EndsWith(path, "/") THEN path \o b
    ELSE path \o "/" \o b

RECURSIVE JoinFold(_, _)
JoinFold(path, rest) ==
    IF Len(rest) = 0 THEN path
    ELSE JoinFold(JoinStep(path, rest[1]), Tail(rest))

\* os.path.join(parts[1], parts[2], ...)
PathJoin(parts) == JoinFold(parts[1], Tail(parts))

RECURSIVE NormComps(_, _, _)
\* The loop of posixpath.normpath over the split components.
NormComps(comps, new, rooted) ==
    IF Len(comps) = 0 THEN new
    ELSE LET comp == comps[1]
             rest == Tail(comps)
         IN IF comp = "" \/ comp = "." THEN NormComps(rest, new, rooted)
            ELSE IF \/ comp # ".."
                    \/ (~rooted /\ Len(new) = 0)
                    \/ (Len(new) > 0 /\ new[Len(new)] = "..")
                 THEN NormComps(rest, Append(new, comp), rooted)
            ELSE IF Len(new) > 0
                 THEN NormComps(rest, SubSeq(new, 1, Len(new) - 1), rooted)
            ELSE NormComps(rest, new, rooted)

\* posixpath.normpath
NormPath(path) ==
    IF path = "" THEN "."
    ELSE LET rooted == StartsWith(path, "/")
             slashes == IF rooted /\ Len(path) >= 2 /\ CharAt(path, 2) = "/"
                           /\ ~(Len(path) >= 3 /\ CharAt(path, 3) = "/")
                        THEN "//"
                        ELSE IF rooted THEN "/" ELSE ""
             body == JoinWith("/", NormComps(Split(path), <<>>, rooted))
             out == slashes \o body
         IN IF out = "" THEN "." ELSE out

\* The working directory and the directory of the script file.
Cwd == "/repo"
ScriptDir == "/repo/scripts"

\* os.path.abspath
AbsPath(path) ==
    IF StartsWith(path, "/") THEN NormPath(path)
    ELSE NormPath(PathJoin(<<Cwd, path>>))

\* os.path.realpath(os.path.abspath(p)); the tree holds no symbolic links,
\* so realpath only normalises again.
RealAbs(path) == AbsPath(AbsPath(path))

-----------------------------------------------------------------------------
(* The configuration tables.                                               *)

\* suite |-> license descriptor |-> character codes, in insertion order.
SUITES ==
    << <<"l", << <<"by", <<"b">> >>,
                 <<"by-nc", <<"bn", "be", "by">> >>,
                 <<"by-nd", <<"bd">> >>,
                 <<"by-sa", <<"ba">> >>,
                 <<"by-nc-nd", <<"bnd", "bed", "byd">> >>,
                 <<"by-nc-sa", <<"bna", "bea", "bya">> >> >> >>,
       <<"p", << <<"cc-zero", <<"0">> >>,
                 <<"public-domain-mark", <<"p">> >> >> >> >>

\* (width, height, font size, padding)
DIMENSIONS == << <<88, 31, 31, 1>>, <<80, 15, 15, 4>>, <<76, 22, 22, 1>> >>

BACKGROUNDS == <<"transparent", "000000", "eeeeee", "ffffff">>

STEPS == <<"00", "11", "22", "33", "66", "99", "ff">>

\* ["%s%s%s" % (r, g, b) for r, g, b in product(steps, steps, steps)]
Foregrounds(steps) ==
    LET n == Len(steps)
    IN [k \in 1..(n * n * n) |->
           steps[((k - 1) \div (n * n)) + 1]
              \o steps[(((k - 1) \div n) % n) + 1]
              \o steps[((k - 1) % n) + 1]]

FOREGROUNDS == Foregrounds(STEPS)

-----------------------------------------------------------------------------
(* Path and filename derivation.                                           *)

icon_filename_e_first(dimensions, characters) ==
    LET suffix == IF Contains(characters, "e") THEN "-e"
                  ELSE IF Contains(characters, "y") THEN "-y"
                  ELSE ""
    IN Str(dimensions[1]) \o "x" \o Str(dimensions[2]) \o suffix \o ".png"

icon_filename_nosuffix(dimensions, characters) ==
    Str(dimensions[1]) \o "x" \o Str(dimensions[2]) \o ".png"

icon_filename(dimensions, characters) ==
    LET suffix == IF Contains(characters, "y") THEN "-y"
                  ELSE IF Contains(characters, "e") THEN "-e"
                  ELSE ""
    IN Str(dimensions[1]) \o "x" \o Str(dimensions[2]) \o suffix \o ".png"

icon_path_badslice(suite, descriptor, background, foreground) ==
    PathJoin(<<suite, descriptor, background,
               PathJoin(<<Slice(foreground, 0, 2), Slice(foreground, 2, 4),
                          Slice(foreground, 2, 4)>>)>>)

icon_path(suite, descriptor, background, foreground) ==
    LET foreground_path ==
            PathJoin(<<Slice(foreground, 0, 2), Slice(foreground, 2, 4),
                       Slice(foreground, 4, 6)>>)
    IN PathJoin(<<suite, descriptor, background, foreground_path>>)

\* basedir of main(): <script dir>/../www/i, made absolute and real.
BaseDir == RealAbs(PathJoin(<<ScriptDir, "..", "www", "i">>))

-----------------------------------------------------------------------------
(* The enumeration of main(): the nested loops flattened, in loop order.   *)

RECURSIVE ConcatAll(_)
ConcatAll(seqs) ==
    IF Len(seqs) = 0 THEN <<>> ELSE seqs[1] \o ConcatAll(Tail(seqs))

\* product(module_chars, dims, bgs, fgs) for one license of one suite.
LicenseCombos(suite, lic, module_chars, dims, bgs, fgs) ==
    LET ld == Len(dims)
        lb == Len(bgs)
        lf == Len(fgs)
    IN [k \in 1..(Len(module_chars) * ld * lb * lf) |->
           [suite      |-> suite,
            lic        |-> lic,
            chars      |-> module_chars[((k - 1) \div (ld * lb * lf)) + 1],
            dimensions |-> dims[(((k - 1) \div (lb * lf)) % ld) + 1],
            background |-> bgs[(((k - 1) \div lf) % lb) + 1],
            foreground |-> fgs[((k - 1) % lf) + 1]]]

SuiteCombos(suite, licenses, dims, bgs, fgs) ==
    ConcatAll([j \in 1..Len(licenses) |->
                  LicenseCombos(suite, licenses[j][1], licenses[j][2],
                                dims, bgs, fgs)])

Enumerate(suites, dims, bgs, fgs) ==
    ConcatAll([j \in 1..Len(suites) |->
                  SuiteCombos(suites[j][1], suites[j][2], dims, bgs, fgs)])

\* The directory and the file of a combination, as main() computes them.
DirOf(c) ==
    RealAbs(PathJoin(<<BaseDir,
                       icon_path(c.suite, c.lic, c.background, c.foreground)>>))

FileOf(c) ==
    RealAbs(PathJoin(<<DirOf(c), icon_filename(c.dimensions, c.chars)>>))

\* The foregrounds the model enumerates: the first MaxForegrounds - 1 of
\* FOREGROUNDS and the last one (so that both "000000" and "ffffff", the two
\* foregrounds that are also backgrounds, are among them).
ModelForegrounds ==
    IF MaxForegrounds >= Len(FOREGROUNDS) THEN FOREGROUNDS
    ELSE SubSeq(FOREGROUNDS, 1, MaxForegrounds - 1)
            \o <<FOREGROUNDS[Len(FOREGROUNDS)]>>

\* The enumeration of main() over SUITES, DIMENSIONS and BACKGROUNDS.
MainCombos == Enumerate(SUITES, DIMENSIONS, BACKGROUNDS, ModelForegrounds)

MainDirs == [k \in 1..Len(MainCombos) |-> DirOf(MainCombos[k])]

MainFiles == [k \in 1..Len(MainCombos) |-> FileOf(MainCombos[k])]

\* The tables two concurrent invocations enumerate: one license, the first
\* ConcDims dimension presets, the backgrounds "eeeeee" and "ffffff" and the
\* foreground "ffffff" (files that share a directory, and an identical pair).
ConcSuites == << <<SUITES[1][1], SubSeq(SUITES[1][2], 1, 1)>> >>

ConcCombos ==
    Enumerate(ConcSuites,
              SubSeq(DIMENSIONS, 1, Min(ConcDims, Len(DIMENSIONS))),
              SubSeq(BACKGROUNDS, 3, 4),
              Foregrounds(<<STEPS[Len(STEPS)]>>))

ConcDirs == [k \in 1..Len(ConcCombos) |-> DirOf(ConcCombos[k])]

ConcFiles == [k \in 1..Len(ConcCombos) |-> FileOf(ConcCombos[k])]

Combos == IF mode = "conc" THEN ConcCombos ELSE MainCombos

\* path and filepath of main() for the k-th combination.
path(k) == IF mode = "conc" THEN ConcDirs[k] ELSE MainDirs[k]

filepath(k) == IF mode = "conc" THEN ConcFiles[k] ELSE MainFiles[k]

-----------------------------------------------------------------------------
(* Rendering.                                                              *)

\* The context genicon returns, described by what was drawn on its surface:
\* the canvas size, the background fill, the font size and the characters
\* shown in the foreground colour with the padding.  (suite is not used.)
genicon(suite, characters, font_size, padding, width, height, background, foreground) ==
    JoinWith("|", <<Str(width) \o "x" \o Str(height), background,
                    Str(font_size), characters, foreground, Str(padding)>>)

\* What the k-th combination renders.
Rendering(k) ==
    LET c == Combos[k]
    IN genicon(c.suite, c.chars, c.dimensions[3], c.dimensions[4],
               c.dimensions[1], c.dimensions[2], c.background, c.foreground)

\* Content of a file that was in the tree before any invocation, and of a
\* file whose serialisation failed half way.
Stale == "stale"
Partial == "partial"

-----------------------------------------------------------------------------
(* The driver main() and the __main__ block.                               *)

\* "if foreground == background: continue"
SameColorNever(foreground, background) == FALSE

SameColor(foreground, background) == foreground = background

\* os.path.exists(filepath)
ExistsNever(fp) == FALSE

Exists(fp) == fp \in DOMAIN files

\* "except OSError as e: if e.errno != errno.EEXIST: raise"
ReraisedAlways(errno) == TRUE

ReraisedNever(errno) == FALSE

Reraised(errno) == errno # "EEXIST"

\* The exception classes that reach the top level, with their base classes.
Bases(cls) ==
    CASE cls = "KeyboardInterrupt" -> {"KeyboardInterrupt", "BaseException"}
      [] cls = "SystemExit" -> {"SystemExit", "BaseException"}
      [] cls = "Exception" -> {"Exception", "BaseException"}
      [] cls = "OSError" -> {"OSError", "Exception", "BaseException"}
      [] cls = "cairo.Error" -> {"cairo.Error", "Exception", "BaseException"}
      [] OTHER -> {}

\* The try/except of the __main__ block: the clauses are tried in order.
ExitCodeInterruptAsError(e) ==
    IF e = "none" THEN 0
    ELSE IF "Exception" \in Bases(e) \/ "KeyboardInterrupt" \in Bases(e) THEN 1
    ELSE 1

ExitCode(e) ==
    IF e = "none" THEN 0
    ELSE IF "SystemExit" \in Bases(e) THEN 0
    ELSE IF "KeyboardInterrupt" \in Bases(e) THEN 130
    ELSE IF "Exception" \in Bases(e) THEN 1
    ELSE 1

NoCalls == [genicon |-> 0, makedirs |-> 0, write_to_png |-> 0, skipped |-> 0]

\* The combinations that are not an identical-colour pair.
Valid == {k \in 1..Len(Combos) : Combos[k].foreground # Combos[k].background}

FirstValid == CHOOSE k \in Valid : \A j \in Valid : k <= j

LastValid == CHOOSE k \in Valid : \A j \in Valid : k >= j

\* The trees an invocation may start on.
TreeNames == {"empty", "stale_first", "dir_first", "stale_last"}

InitialFiles(t) ==
    CASE t = "stale_first" -> [f \in {filepath(FirstValid)} |-> Stale]
      [] t = "stale_last" -> [f \in {filepath(LastValid)} |-> Stale]
      [] OTHER -> [f \in {} |-> Stale]

InitialDirs(t) ==
    CASE t = "stale_first" -> {path(FirstValid)}
      [] t = "dir_first" -> {path(FirstValid)}
      [] t = "stale_last" -> {path(LastValid)}
      [] OTHER -> {}

InitMain(m, P) ==
    /\ mode = m
    /\ procs = P
    /\ fontInstalled \in BOOLEAN
    /\ tree0 \in TreeNames
    /\ files = InitialFiles(tree0)
    /\ dirs = InitialDirs(tree0)
    /\ pc = [p \in P |-> "start"]
    /\ idx = [p \in P |-> 0]
    /\ ctx = [p \in P |-> ""]
    /\ exc = [p \in P |-> "none"]
    /\ status = [p \in P |-> -1]
    /\ run = [p \in P |-> 1]
    /\ calls = [p \in P |-> NoCalls]
    /\ mkres = [p \in P |-> "none"]
    /\ arg = <<>>
    /\ ret = <<>>

Init == InitMain("main", {1})

InitConc == InitMain("conc", {1, 2})

\* Lines 140-151: the font check.
Startup(p) ==
    /\ pc[p] = "start"
    /\ IF fontInstalled
       THEN /\ pc' = [pc EXCEPT ![p] = "loop"]
            /\ idx' = [idx EXCEPT ![p] = 1]
            /\ exc' = exc
       ELSE /\ pc' = [pc EXCEPT ![p] = "raised"]
            /\ exc' = [exc EXCEPT ![p] = "Exception"]
            /\ idx' = idx
    /\ UNCHANGED <<mode, procs, fontInstalled, tree0, files, dirs, ctx, status,
                   run, calls, mkres, arg, ret>>

\* Lines 153-189: one round of the loops up to the call of os.makedirs.
Loop(p) ==
    /\ pc[p] = "loop"
    /\ IF idx[p] > Len(Combos)
       THEN /\ pc' = [pc EXCEPT ![p] = "returned"]
            /\ UNCHANGED <<idx, ctx, calls>>
       ELSE LET c == Combos[idx[p]]
            IN IF SameColor(c.foreground, c.background)
               THEN /\ idx' = [idx EXCEPT ![p] = @ + 1]
                    /\ UNCHANGED <<pc, ctx, calls>>
               ELSE IF Exists(filepath(idx[p]))
               THEN /\ idx' = [idx EXCEPT ![p] = @ + 1]
                    /\ calls' = [calls EXCEPT ![p].skipped = @ + 1]
                    /\ UNCHANGED <<pc, ctx>>
               ELSE /\ ctx' = [ctx EXCEPT ![p] = Rendering(idx[p])]
                    /\ calls' = [calls EXCEPT ![p].genicon = @ + 1]
                    /\ pc' = [pc EXCEPT ![p] = "makedirs"]
                    /\ idx' = idx
    /\ UNCHANGED <<mode, procs, fontInstalled, tree0, files, dirs, exc, status,
                   run, mkres, arg, ret>>

\* The outcomes of os.makedirs(d): it creates the directory and its parents,
\* fails with EEXIST when the directory is there, and may fail otherwise
\* (permissions, disk) whatever the tree holds.
MakedirsOutcomes(d) ==
    (IF d \in dirs THEN {"EEXIST"} ELSE {"ok"}) \cup {"EACCES"}

\* Lines 190-194.
Makedirs(p) ==
    /\ pc[p] = "makedirs"
    /\ \E res \in MakedirsOutcomes(path(idx[p])) :
          /\ mkres' = [mkres EXCEPT ![p] = res]
          /\ dirs' = IF res = "ok" THEN dirs \cup {path(idx[p])} ELSE dirs
          /\ IF res # "ok" /\ Reraised(res)
             THEN /\ pc' = [pc EXCEPT ![p] = "raised"]
                  /\ exc' = [exc EXCEPT ![p] = "OSError"]
             ELSE /\ pc' = [pc EXCEPT ![p] = "write"]
                  /\ exc' = exc
    /\ calls' = [calls EXCEPT ![p].makedirs = @ + 1]
    /\ UNCHANGED <<mode, procs, fontInstalled, tree0, files, idx, ctx, status,
                   run, arg, ret>>

\* The outcomes of write_to_png: the file is created or truncated and
\* written; a failure leaves no file (it could not be opened) or a partial
\* one.  Without its directory the file cannot be opened.
WriteOutcomes(d) ==
    IF d \in dirs THEN {"ok", "open_failed", "write_failed"}
    ELSE {"open_failed"}

\* Line 196.
WritePng(p) ==
    /\ pc[p] = "write"
    /\ \E res \in WriteOutcomes(path(idx[p])) :
          LET fp == filepath(idx[p])
              others == [f \in DOMAIN files \ {fp} |-> files[f]]
          IN /\ files' = CASE res = "ok" -> (fp :> ctx[p]) @@ others
                           [] res = "write_failed" -> (fp :> Partial) @@ others
                           [] OTHER -> files
             /\ IF res = "ok"
                THEN /\ pc' = [pc EXCEPT ![p] = "loop"]
                     /\ idx' = [idx EXCEPT ![p] = @ + 1]
                     /\ exc' = exc
                ELSE /\ pc' = [pc EXCEPT ![p] = "raised"]
                     /\ exc' = [exc EXCEPT ![p] = "cairo.Error"]
                     /\ idx' = idx
    /\ calls' = [calls EXCEPT ![p].write_to_png = @ + 1]
    /\ UNCHANGED <<mode, procs, fontInstalled, tree0, dirs, ctx, status, run,
                   mkres, arg, ret>>

\* The user interrupts the process while main() runs.
Interrupt(p) ==
    /\ pc[p] \in {"start", "loop", "makedirs", "write"}
    /\ pc' = [pc EXCEPT ![p] = "raised"]
    /\ exc' = [exc EXCEPT ![p] = "KeyboardInterrupt"]
    /\ UNCHANGED <<mode, procs, fontInstalled, tree0, files, dirs, idx, ctx,
                   status, run, calls, mkres, arg, ret>>

\* Lines 199-210: main() has returned or raised; the process exits.
TopLevel(p) ==
    /\ pc[p] \in {"returned", "raised"}
    /\ status' = [status EXCEPT ![p] = ExitCode(exc[p])]
    /\ pc' = [pc EXCEPT ![p] = "exited"]
    /\ UNCHANGED <<mode, procs, fontInstalled, tree0, files, dirs, idx, ctx,
                   exc, run, calls, mkres, arg, ret>>

\* The script is started again after it completed normally.
Reinvoke(p) ==
    /\ pc[p] = "exited"
    /\ status[p] = 0
    /\ run[p] < MaxRuns
    /\ run' = [run EXCEPT ![p] = @ + 1]
    /\ pc' = [pc EXCEPT ![p] = "start"]
    /\ idx' = [idx EXCEPT ![p] = 0]
    /\ ctx' = [ctx EXCEPT ![p] = ""]
    /\ status' = [status EXCEPT ![p] = -1]
    /\ calls' = [calls EXCEPT ![p] = NoCalls]
    /\ mkres' = [mkres EXCEPT ![p] = "none"]
    /\ UNCHANGED <<mode, procs, fontInstalled, tree0, files, dirs, exc, arg, ret>>

Next ==
    \/ \E p \in procs : Startup(p)
    \/ \E p \in procs : Loop(p)
    \/ \E p \in procs : Makedirs(p)
    \/ \E p \in procs : WritePng(p)
    \/ \E p \in procs : Interrupt(p)
    \/ \E p \in procs : TopLevel(p)
    \/ \E p \in procs : Reinvoke(p)

\* One invocation of main() after the other, on one tree.
Spec == Init /\ [][Next]_vars

\* Two invocations of main() at once, on one tree.
SpecConc == InitConc /\ [][Next]_vars

-----------------------------------------------------------------------------
(* The pure functions, each applied to arguments drawn from bounded sets.  *)

\* No invocation of main() runs while a function is studied.
InitIdle ==
    /\ procs = {}
    /\ fontInstalled = TRUE
    /\ tree0 = "empty"
    /\ files = [f \in {} |-> Stale]
    /\ dirs = {}
    /\ pc = <<>>
    /\ idx = <<>>
    /\ ctx = <<>>
    /\ exc = <<>>
    /\ status = <<>>
    /\ run = <<>>
    /\ calls = <<>>
    /\ mkres = <<>>

RECURSIVE Strings(_, _)
\* The strings over an alphabet of at most n characters.
Strings(alphabet, n) ==
    IF n = 0 THEN {""}
    ELSE LET shorter == Strings(alphabet, n - 1)
         IN shorter \cup {s \o c : s \in shorter, c \in alphabet}

\* ---- icon_filename ----

FilenameInputs ==
    {[dimensions |-> d, characters |-> s] :
        d \in Range(DIMENSIONS), s \in Strings({"b", "n", "e", "y"}, MaxChars)}

InitFilename ==
    /\ mode = "icon_filename"
    /\ arg \in FilenameInputs
    /\ ret = <<>>
    /\ InitIdle

CallIconFilename ==
    /\ mode = "icon_filename"
    /\ ret = <<>>
    /\ ret' = <<icon_filename(arg.dimensions, arg.characters)>>
    /\ UNCHANGED <<mode, arg, mainVars>>

SpecFilename == InitFilename /\ [][CallIconFilename]_vars

\* ---- icon_path ----

\* Arguments of icon_path: the configured kind of value, and strings that
\* are empty or hold a path separator.
PathInputs ==
    {[suite |-> s, descriptor |-> d, background |-> b, foreground |-> f] :
        s \in {"l", "p", "l/by", ""},
        d \in {"by", "by-nc", "nc", "by/nc", ""},
        b \in {"transparent", "000000", "ffffff", ""},
        f \in Range(ModelForegrounds)}

PathOf(t) == icon_path(t.suite, t.descriptor, t.background, t.foreground)

InitPath ==
    /\ mode = "icon_path"
    /\ arg \in PathInputs
    /\ ret = <<>>
    /\ InitIdle

CallIconPath ==
    /\ mode = "icon_path"
    /\ ret = <<>>
    /\ ret' = <<PathOf(arg)>>
    /\ UNCHANGED <<mode, arg, mainVars>>

SpecPath == InitPath /\ [][CallIconPath]_vars

\* ---- show_chars ----

\* ctx.text_extents(char) under a font metric: (x_bearing, y_bearing, width,
\* height, x_advance, y_advance) of the glyph, whole pixels.
Metrics ==
    [{"b", "y"} -> {<<0, 0 - h, w, h, w + 1, 0>> :
                       w \in 1..MaxExtent, h \in 1..MaxExtent}]

size_chars(metric, chars) == [k \in 1..Len(chars) |-> metric[CharAt(chars, k)]]

RECURSIVE SumField(_, _)
\* reduce(lambda x, y: y[field - 1] + x, sizes, 0.0)
SumField(sizes, field) ==
    IF Len(sizes) = 0 THEN 0
    ELSE sizes[Len(sizes)][field]
            + SumField(SubSeq(sizes, 1, Len(sizes) - 1), field)

\* math.ceil(n / 2) and math.floor(n / 2) of an integer n
CeilHalf(n) == 0 - ((0 - n) \div 2)
FloorHalf(n) == n \div 2

ShowCharsInputs ==
    {[metric |-> m, chars |-> s, dimensions |-> d] :
        m \in Metrics,
        s \in Strings({"b", "y"}, MaxChars) \ {""},
        d \in Range(DIMENSIONS)}

InitShowChars ==
    /\ mode = "show_chars"
    /\ arg \in ShowCharsInputs
    /\ ret = [pc |-> "entry"]
    /\ InitIdle

\* Lines 74-79.  x is kept doubled (x2 = 2 * x): it is a whole number plus
\* one half.
Layout ==
    /\ mode = "show_chars"
    /\ ret.pc = "entry"
    /\ LET sizes == size_chars(arg.metric, arg.chars)
           padding == arg.dimensions[4]
           width == arg.dimensions[1]
           height == arg.dimensions[2]
           total_padding == padding * (Len(arg.chars) - 1)
           total_width == SumField(sizes, 4)
       IN ret' = [pc            |-> "draw",
                  sizes         |-> sizes,
                  total_padding |-> total_padding,
                  total_width   |-> total_width,
                  x2            |-> 1 + 2 * CeilHalf(width - (total_width
                                                              + total_padding)),
                  y             |-> CeilHalf(height) + FloorHalf(sizes[1][4]),
                  k             |-> 1,
                  moves         |-> <<>>]
    /\ UNCHANGED <<mode, arg, mainVars>>

\* Lines 80-83: one round of the drawing loop.
Draw ==
    /\ mode = "show_chars"
    /\ ret.pc = "draw"
    /\ ret.k <= Len(arg.chars)
    /\ ret' = [ret EXCEPT
                 !.moves = Append(@, [char |-> CharAt(arg.chars, ret.k),
                                      x    |-> CeilHalf(ret.x2),
                                      y    |-> ret.y]),
                 !.x2 = @ + 2 * (ret.sizes[ret.k][3] + arg.dimensions[4]),
                 !.k = @ + 1]
    /\ UNCHANGED <<mode, arg, mainVars>>

\* Line 84.
Stroke ==
    /\ mode = "show_chars"
    /\ ret.pc = "draw"
    /\ ret.k > Len(arg.chars)
    /\ ret' = [ret EXCEPT !.pc = "done"]
    /\ UNCHANGED <<mode, arg, mainVars>>

NextShowChars == Layout \/ Draw \/ Stroke

SpecShowChars == InitShowChars /\ [][NextShowChars]_vars

-----------------------------------------------------------------------------
(* Properties.                                                             *)

Errors == {"Exception", "OSError", "cairo.Error"}

\* A file path whose background segment is the concatenation of its three
\* foreground segments: <base>/<suite>/<lic>/<bg>/<r>/<g>/<b>/<name>.png
IdenticalColourFile(f) ==
    LET seg == Split(f)
        n == Len(seg)
    IN n >= 5 /\ seg[n - 4] = seg[n - 3] \o seg[n - 2] \o seg[n - 1]

IdenticalColourDir(d) ==
    LET seg == Split(d)
        n == Len(seg)
    IN n >= 4 /\ seg[n - 3] = seg[n - 2] \o seg[n - 1] \o seg[n]

\* C1: within the invocations of main() on a tree (one after the other), no
\* step changes the content of a file that exists or removes a file or a
\* directory: the tree only grows.
C1_AppendOnly ==
    [][/\ \A f \in DOMAIN files : f \in DOMAIN files' /\ files'[f] = files[f]
       /\ dirs \subseteq dirs']_vars

\* The file that was in the tree before the run is still as it was after its
\* combination was reached and skipped, and other files were written.
C1_Witness ==
    /\ mode = "main"
    /\ tree0 = "stale_first"
    /\ idx[1] > FirstValid
    /\ calls[1].skipped = 1
    /\ calls[1].write_to_png > 0
    /\ files[filepath(FirstValid)] = Stale

\* C2: in an invocation of main() that follows one that completed normally,
\* no step renders, creates a directory, writes a PNG or changes the tree;
\* every combination that is not an identical-colour pair is skipped because
\* its file exists, and main() raises no error.
C2_SecondRunIdle ==
    [][run'[1] >= 2 =>
          /\ files' = files
          /\ dirs' = dirs
          /\ pc'[1] \notin {"makedirs", "write"}
          /\ calls'[1].genicon = 0
          /\ calls'[1].makedirs = 0
          /\ calls'[1].write_to_png = 0
          /\ exc'[1] \notin Errors
          /\ status'[1] # 1
          /\ pc'[1] \in {"returned", "exited"} /\ exc'[1] = "none"
                => calls'[1].skipped = Cardinality(Valid)]_vars

C2_Witness ==
    /\ mode = "main"
    /\ tree0 = "empty"
    /\ run[1] = 2
    /\ pc[1] = "exited"
    /\ status[1] = 0
    /\ calls[1].skipped = Cardinality(Valid)
    /\ calls[1].genicon = 0

\* C3: a round of the loop on a combination with foreground = background
\* only moves to the next combination: no genicon, no makedirs, no write;
\* and no step creates a file or a directory under a path whose background
\* segment is the concatenation of its foreground segments.
C3_IdenticalColourSkipped ==
    [][/\ \A p \in procs :
             (/\ pc[p] = "loop"
              /\ idx[p] <= Len(Combos)
              /\ Combos[idx[p]].foreground = Combos[idx[p]].background
              /\ exc'[p] # "KeyboardInterrupt")
             => /\ pc'[p] = "loop"
                /\ idx'[p] = idx[p] + 1
                /\ calls'[p] = calls[p]
                /\ ctx'[p] = ctx[p]
                /\ files' = files
                /\ dirs' = dirs
       /\ \A f \in DOMAIN files' \ DOMAIN files : ~IdenticalColourFile(f)
       /\ \A d \in dirs' \ dirs : ~IdenticalColourDir(d)]_vars

\* The white-on-white combination has been passed, after other icons were
\* generated.
C3_Witness ==
    /\ mode = "main"
    /\ pc[1] = "loop"
    /\ idx[1] > 1
    /\ idx[1] <= Len(Combos) + 1
    /\ Combos[idx[1] - 1].foreground = "ffffff"
    /\ Combos[idx[1] - 1].background = "ffffff"
    /\ calls[1].write_to_png > 0

\* C4: the exit status is 0 when main() returned, 130 when a
\* KeyboardInterrupt left it and 1 when any other exception left it, and
\* there is no other exit status.
C4_ExitStatus ==
    \A p \in procs :
        IF pc[p] = "exited"
        THEN /\ exc[p] = "none" => status[p] = 0
             /\ exc[p] = "KeyboardInterrupt" => status[p] = 130
             /\ exc[p] \in Errors => status[p] = 1
             /\ status[p] \in {0, 1, 130}
        ELSE status[p] = -1

C4_Witness ==
    /\ mode = "main"
    /\ pc[1] = "exited"
    /\ exc[1] = "KeyboardInterrupt"
    /\ status[1] = 130
    /\ calls[1].write_to_png > 0

\* The arguments icon_path is given by main(): no component is empty or
\* holds a path separator.
Clean(t) ==
    \A x \in {t.suite, t.descriptor, t.background} :
        x # "" /\ ~Contains(x, "/")

DimText(d) ==
    CASE d = DIMENSIONS[1] -> "88x31"
      [] d = DIMENSIONS[2] -> "80x15"
      [] d = DIMENSIONS[3] -> "76x22"

\* C6: icon_filename returns <width>x<height><suffix>.png, the suffix being
\* -y when the characters hold a y (even beside an e), -e when they hold an
\* e and no y, and empty otherwise.
C6_FilenameSuffix ==
    ret # <<>> =>
        LET has(c) == \E k \in 1..Len(arg.characters) :
                         SubSeq(arg.characters, k, k) = c
        IN /\ has("y") => ret[1] = DimText(arg.dimensions) \o "-y.png"
           /\ (has("e") /\ ~has("y"))
                 => ret[1] = DimText(arg.dimensions) \o "-e.png"
           /\ (~has("e") /\ ~has("y"))
                 => ret[1] = DimText(arg.dimensions) \o ".png"

C6_Witness ==
    /\ mode = "icon_filename"
    /\ arg.characters = "bye"
    /\ ret = <<"88x31-y.png">>

\* C7: a makedirs that fails with EEXIST lets main() go on to write the PNG;
\* one that fails otherwise, and a failed write, end main() with the error;
\* a makedirs error leaves the combination without a file; and once an error
\* has left main() nothing more is rendered, created or written.
C7_ErrorsAbortTheBatch ==
    [][\A p \in procs :
          /\ calls'[p].makedirs = calls[p].makedirs + 1
                => /\ mkres'[p] \in {"ok", "EEXIST"}
                      => pc'[p] = "write" /\ exc'[p] = "none"
                   /\ mkres'[p] \notin {"ok", "EEXIST"}
                      => /\ pc'[p] = "raised"
                         /\ exc'[p] = "OSError"
                         /\ files' = files
                         /\ filepath(idx[p]) \notin DOMAIN files'
          /\ calls'[p].write_to_png = calls[p].write_to_png + 1
                => \/ /\ pc'[p] = "loop"
                      /\ idx'[p] = idx[p] + 1
                      /\ filepath(idx[p]) \in DOMAIN files'
                      /\ files'[filepath(idx[p])] = ctx[p]
                   \/ /\ pc'[p] = "raised"
                      /\ exc'[p] = "cairo.Error"
          /\ (pc[p] \in {"raised", "exited"} /\ exc[p] \in Errors)
                => /\ pc'[p] = "exited"
                   /\ status'[p] = 1
                   /\ files' = files
                   /\ dirs' = dirs
                   /\ calls'[p] = calls[p]
                   /\ idx'[p] = idx[p]]_vars

\* The directory was there (EEXIST), the PNG of the combination was written
\* all the same and the loop went on.
C7_Witness ==
    /\ mode = "main"
    /\ pc[1] = "loop"
    /\ mkres[1] = "EEXIST"
    /\ idx[1] > 1
    /\ filepath(idx[1] - 1) \in DOMAIN files
    /\ files[filepath(idx[1] - 1)] = Rendering(idx[1] - 1)

\* C8: over SUITES, DIMENSIONS, BACKGROUNDS and the model's foregrounds, a
\* run from an empty tree never finds the file of a combination written by
\* another combination, and a run that completes normally has written one
\* file per combination with foreground # background; and the foreground
\* directories of all 343 FOREGROUNDS differ.
C8_OneFilePerCombination ==
    (mode = "main" /\ tree0 = "empty" /\ run[1] = 1)
        => /\ calls[1].skipped = 0
           /\ (pc[1] \in {"returned", "exited"} /\ exc[1] = "none")
                 => /\ calls[1].write_to_png = Cardinality(Valid)
                    /\ Cardinality(DOMAIN files) = Cardinality(Valid)
                    /\ DOMAIN files = {filepath(k) : k \in Valid}
                    /\ Cardinality({icon_path("l", "by", "transparent", f) :
                                       f \in Range(FOREGROUNDS)})
                          = Len(STEPS) * Len(STEPS) * Len(STEPS)

C8_Witness ==
    /\ mode = "main"
    /\ tree0 = "empty"
    /\ run[1] = 1
    /\ pc[1] = "exited"
    /\ status[1] = 0
    /\ calls[1].write_to_png = Cardinality(Valid)
    /\ calls[1].write_to_png > Len(DIMENSIONS) * Len(BACKGROUNDS)

\* C9 as stated: the run width show_chars centres on is the sum of the
\* measured widths plus the padding between the characters, and the first
\* character starts at 0.5 + ceil(canvas width / 2 - run width / 2).
C9_RunWidthIsSumOfWidths ==
    (mode = "show_chars" /\ ret.pc # "entry") =>
        LET run_width == SumField(ret.sizes, 3)
                            + arg.dimensions[4] * (Len(arg.chars) - 1)
        IN /\ ret.total_width + ret.total_padding = run_width
           /\ ret.k = 1
                 => ret.x2 = 1 + 2 * CeilHalf(arg.dimensions[1] - run_width)

\* C10: of two concurrent invocations, none ends with the EEXIST of a
\* directory the other created; and when both have completed normally the
\* tree holds exactly the files one invocation produces (with those it
\* started with), each complete.
C10_BenignRace ==
    /\ \A p \in procs : exc[p] = "OSError" => mkres[p] # "EEXIST"
    /\ (\A p \in procs : pc[p] = "exited" /\ status[p] = 0)
          => /\ DOMAIN files
                   = {filepath(k) : k \in Valid} \cup DOMAIN InitialFiles(tree0)
             /\ \A k \in Valid :
                   files[filepath(k)] \in {Rendering(k), Stale}

\* Both invocations rendered and wrote every file, each after the other had
\* created the directory at least once, and both completed normally.
C10_Witness ==
    /\ mode = "conc"
    /\ tree0 = "empty"
    /\ \A p \in procs :
          /\ pc[p] = "exited"
          /\ status[p] = 0
          /\ run[p] = 1
          /\ calls[p].write_to_png = Cardinality(Valid)
          /\ calls[p].makedirs = Cardinality(Valid)

=============================================================================
